---- MODULE Spec2Model ----
(***************************************************************************)
(* MemeGen AI: the orchestrator (App), the interaction controller and the  *)
(* export entry points (MemeCanvas), as a state machine.                   *)
(*                                                                         *)
(* One action per event handler.  React commits a render after every       *)
(* handler, so each handler reads the state left by the previous one.      *)
(* An `await` splits a handler into a start action and a settle action.    *)
(*                                                                         *)
(* The state space of the whole application is the product of three        *)
(* nearly independent parts, so it is explored through specifications      *)
(* over the same variables and the same actions:                           *)
(*   Spec        caption model and pointer interaction                     *)
(*   DeleteSpec  Spec, with deleteCaption called on any caption            *)
(*   MoveSpec    Spec, with pointer-moves while nothing is mounted         *)
(*   ReqSpec     request lifecycle of the two AI collaborators             *)
(*   ReqLiveSpec the requests alone, where every collaborator call settles  *)
(*   ExportSpec  download / share                                          *)
(*   BusySpec    caption actions while requests are outstanding            *)
(*   DrawSpec    the compositor over images, captions and layouts          *)
(*   ResolveSpec requests under every network condition                    *)
(***************************************************************************)
EXTENDS Integers, Sequences, FiniteSets, TLC

VARIABLES
    currentImage,        \* App.tsx:17  background image reference, or Null
    imgReady,            \* the <img> element has loaded with a nonzero rendered size
    captions,            \* App.tsx:18  ordered caption collection
    selectedCaptionId,   \* App.tsx:19  a caption id, or Null
    generatedCaptions,   \* App.tsx:20  suggestions shown in the side panel
    appState,            \* App.tsx:21  request status
    editPrompt,          \* App.tsx:22
    errorMsg,            \* App.tsx:23  a message, or Null
    pendingCaption,      \* generateMemeCaptions calls that have not settled
    pendingEdit,         \* editMemeImage calls that have not settled
    exportTasks,         \* handleDownload / handleShare calls suspended at an await
    sink,                \* what the export sink received last
    pointer,             \* "up" or "down": the single pointer's button
    now,                 \* reading of Date.now()
    net,                 \* what loading an image by its URL meets: fetch and canvas
    failedCaption,       \* outstanding generateMemeCaptions calls whose image did not resolve
    failedEdit,          \* outstanding editMemeImage calls whose image did not resolve
    layout,              \* bounding boxes of the container and of the <img>
    canvas               \* the canvas of the latest export that gave a blob

imageVars == <<currentImage, imgReady>>
captionVars == <<captions, selectedCaptionId>>
requestVars == <<generatedCaptions, appState, editPrompt, pendingCaption, pendingEdit>>
exportVars == <<exportTasks, sink>>
inputVars == <<pointer, now>>
drawVars == <<layout, canvas>>
serviceVars == <<net, failedCaption, failedEdit>>

vars == <<imageVars, captionVars, requestVars, errorMsg, exportVars, inputVars, drawVars,
          serviceVars>>

----------------------------------------------------------------------------
(* Bounds *)

MaxCaptions == 2
MaxClock == 2
MaxPending == 2
MaxExports == 1

----------------------------------------------------------------------------
(* Values *)

Null == "null"

IDLE == "IDLE"
ANALYZING == "ANALYZING"
EDITING == "EDITING"

TEMPLATES == {"https://i.imgflip.com/1ur9b0.jpg"}
UploadedImage == "data:image/png;base64,UPLOAD"
EditedImage == "data:image/png;base64,EDITED"

DefaultX == 300
DefaultY == 50
DefaultColor == "#FFFFFF"
DefaultFontSize == 32

NewText == "NEW TEXT"

CaptionError == "Failed to generate captions. Try again."
EditError == "Failed to edit image. The prompt might be too complex or blocked."
DownloadError == "Failed to download meme."

\* What the suggestion collaborator can resolve with.
SuggestionResults ==
    << [text |-> "one does not simply", category |-> "Funny"],
       [text |-> "this is fine", category |-> "Dark"] >>

\* Partial<MemeCaption> values the edit panel passes to updateCaption.
FieldEdits ==
    { [text |-> "EDITED"], [color |-> "#ff0000"], [fontSize |-> 12] }

\* Values of the edit prompt textarea: empty, blank, and a real instruction.
Prompts == {"", " ", "make it cyberpunk"}

\* String.prototype.trim on the prompts above.
trim(s) == IF s = " " THEN "" ELSE s

\* Pointer positions (clientX, clientY) and container layout boxes.
PointerPositions == { <<-1, 4>>, <<2, 2>>, <<4, -1>> }
ContainerRects == { [left |-> 1, top |-> 1, width |-> 2, height |-> 2] }

\* Bounding boxes (getBoundingClientRect) of the container and of the <img>:
\* the image as wide as the container, the image centred in a wider
\* container, and a small container scrolled away from the origin.
FullWidth ==
    [container |-> [left |-> 0, top |-> 0, width |-> 800, height |-> 600],
     image |-> [left |-> 0, top |-> 0, width |-> 800, height |-> 600]]

Centred ==
    [container |-> [left |-> 10, top |-> 20, width |-> 800, height |-> 600],
     image |-> [left |-> 110, top |-> 20, width |-> 600, height |-> 600]]

Small ==
    [container |-> [left |-> 5, top |-> -40, width |-> 400, height |-> 300],
     image |-> [left |-> 5, top |-> -15, width |-> 400, height |-> 250]]

Layouts == {FullWidth, Centred, Small}

\* What loading an image by its URL meets: `fetch` tells whether fetch and
\* the reading of its blob succeed, `canvas` how the <img> and canvas re-encode
\* ends.
Online == [fetch |-> TRUE, canvas |-> "ok"]
Nets == [fetch : BOOLEAN, canvas : {"ok", "noContext", "tainted", "loadError"}]

\* No export has given a blob yet.
NoCanvas == [width |-> 0, height |-> 0, ops |-> <<>>]

\* Anchors and font sizes of the captions an export is made with.
Anchors == { <<400, 300>>, <<300, 50>>, <<0, 600>> }
FontSizes == {12, 32}

----------------------------------------------------------------------------
(* Caption model *)

\* { ...c, ...updates }
Merge(c, updates) ==
    [f \in DOMAIN c |-> IF f \in DOMAIN updates THEN updates[f] ELSE c[f]]

\* App.tsx:78  prev.map(c => c.id === id ? { ...c, ...updates } : c)
updateCaption(caps, id, updates) ==
    [i \in 1..Len(caps) |-> IF caps[i].id = id THEN Merge(caps[i], updates) ELSE caps[i]]

\* One updateCaption per element of `ids`, applied in order.
RECURSIVE updateEach(_, _, _)
updateEach(caps, ids, updates) ==
    IF ids = <<>> THEN caps
    ELSE updateEach(updateCaption(caps, Head(ids), updates), Tail(ids), updates)

\* The ids of the captions a forEach finds dragging, in collection order.
RECURSIVE draggingIds(_)
draggingIds(caps) ==
    IF caps = <<>> THEN <<>>
    ELSE IF Head(caps).isDragging THEN <<Head(caps).id>> \o draggingIds(Tail(caps))
    ELSE draggingIds(Tail(caps))

\* App.tsx:66  the record addCaption builds.  isDragging is absent on a new
\* caption; absent and false are the same to every reader (`if (cap.isDragging)`).
newCaption(id, text) ==
    [id |-> id, text |-> text, x |-> DefaultX, y |-> DefaultY,
     color |-> DefaultColor, fontSize |-> DefaultFontSize, isDragging |-> FALSE]

\* App.tsx:83  prev.filter(c => c.id !== id)
RECURSIVE removeId(_, _)
removeId(caps, id) ==
    IF caps = <<>> THEN <<>>
    ELSE IF Head(caps).id # id THEN <<Head(caps)>> \o removeId(Tail(caps), id)
    ELSE removeId(Tail(caps), id)

\* App.tsx:27  captions.find(c => c.id === selectedCaptionId)
HasSelectedCaption == \E i \in 1..Len(captions) : captions[i].id = selectedCaptionId

\* part_001:132  the container and its <img> are rendered only with an image.
ContainerMounted == currentImage # Null

\* Mutant: the lower bound is missing.
Clamp_noLowerBound(v, size) == IF v < size THEN v ELSE size

\* Math.max(0, Math.min(v, size))
Clamp(v, size) ==
    LET m == IF v < size THEN v ELSE size
    IN IF m > 0 THEN m ELSE 0

----------------------------------------------------------------------------
Init ==
    /\ currentImage = Null
    /\ imgReady = FALSE
    /\ captions = <<>>
    /\ selectedCaptionId = Null
    /\ generatedCaptions = <<>>
    /\ appState = IDLE
    /\ editPrompt = ""
    /\ errorMsg = Null
    /\ pendingCaption = 0
    /\ pendingEdit = 0
    /\ exportTasks = <<>>
    /\ sink = "none"
    /\ pointer = "up"
    /\ now = 1
    /\ layout = FullWidth
    /\ canvas = NoCanvas
    /\ net = Online
    /\ failedCaption = 0
    /\ failedEdit = 0

\* Time passes between two events.
Tick ==
    /\ now < MaxClock
    /\ now' = now + 1
    /\ UNCHANGED <<imageVars, captionVars, requestVars, errorMsg, exportVars, pointer, drawVars, serviceVars>>

\* App.tsx:284  a template tile; the tiles are rendered only while there is no image.
SelectTemplate(url) ==
    /\ currentImage = Null
    /\ currentImage' = url
    /\ imgReady' = FALSE
    /\ UNCHANGED <<captionVars, requestVars, errorMsg, exportVars, inputVars, drawVars, serviceVars>>

\* Mutant: the new caption goes to the front of the collection.
AddCaption_prepends(text) ==
    /\ Len(captions) < MaxCaptions
    /\ LET id == ToString(now)
       IN /\ captions' = <<newCaption(id, text)>> \o captions
          /\ selectedCaptionId' = id
    /\ UNCHANGED <<imageVars, requestVars, errorMsg, exportVars, inputVars, drawVars, serviceVars>>

\* App.tsx:64  addCaption(text)
AddCaption(text) ==
    /\ Len(captions) < MaxCaptions
    /\ LET id == ToString(now)
       IN /\ captions' = Append(captions, newCaption(id, text))
          /\ selectedCaptionId' = id
    /\ UNCHANGED <<imageVars, requestVars, errorMsg, exportVars, inputVars, drawVars, serviceVars>>

\* App.tsx:246  the Add Text button
AddText == AddCaption(NewText)

\* App.tsx:328  a suggestion in the side panel
AddSuggestion(i) ==
    /\ i \in 1..Len(generatedCaptions)
    /\ AddCaption(generatedCaptions[i].text)

\* App.tsx:186,197,212  the edit panel, rendered while the selected caption exists
FieldEdit(updates) ==
    /\ HasSelectedCaption
    /\ captions' = updateCaption(captions, selectedCaptionId, updates)
    /\ UNCHANGED <<imageVars, selectedCaptionId, requestVars, errorMsg, exportVars, inputVars, drawVars, serviceVars>>

\* Mutant: the selection stays whichever caption goes.
deleteCaption_keepsSelection(id) ==
    /\ captions' = removeId(captions, id)
    /\ selectedCaptionId' = selectedCaptionId

\* Mutant: the selection is cleared whichever caption goes.
deleteCaption_alwaysClears(id) ==
    /\ captions' = removeId(captions, id)
    /\ selectedCaptionId' = Null

\* App.tsx:82  deleteCaption(id)
deleteCaption(id) ==
    /\ captions' = removeId(captions, id)
    /\ selectedCaptionId' = IF selectedCaptionId = id THEN Null ELSE selectedCaptionId

\* App.tsx:162  deleteCaption as the canvas receives it (onDeleteCaption): a call
\* with the id of any caption of the collection
DeleteById(id) ==
    /\ \E i \in 1..Len(captions) : captions[i].id = id
    /\ deleteCaption(id)
    /\ UNCHANGED <<imageVars, requestVars, errorMsg, exportVars, inputVars, drawVars, serviceVars>>

\* App.tsx:175 and part_001:185  both delete controls belong to the selected caption
DeleteCaption ==
    /\ HasSelectedCaption
    /\ deleteCaption(selectedCaptionId)
    /\ UNCHANGED <<imageVars, requestVars, errorMsg, exportVars, inputVars, drawVars, serviceVars>>

----------------------------------------------------------------------------
(* Interaction controller *)

\* Mutant: without stopPropagation the container's handler runs after the
\* caption's and its onSelect(null) is the last write.
handleMouseDown_propagates(id) ==
    /\ selectedCaptionId' = Null
    /\ captions' = updateCaption(captions, id, [isDragging |-> TRUE])

\* part_001:91  handleMouseDown(e, id): stopPropagation keeps the event from
\* the container's handler
handleMouseDown(id) ==
    /\ selectedCaptionId' = id
    /\ captions' = updateCaption(captions, id, [isDragging |-> TRUE])

\* part_001:170  the button goes down over the i-th caption overlay
PointerDownCaption(i) ==
    /\ pointer = "up"
    /\ ContainerMounted
    /\ i \in 1..Len(captions)
    /\ handleMouseDown(captions[i].id)
    /\ pointer' = "down"
    /\ UNCHANGED <<imageVars, requestVars, errorMsg, exportVars, now, drawVars, serviceVars>>

\* Mutant: a press on the background also grabs the selected caption.
PointerDownContainer_grabsSelected ==
    /\ pointer = "up"
    /\ ContainerMounted
    /\ selectedCaptionId' = Null
    /\ captions' = updateCaption(captions, selectedCaptionId, [isDragging |-> TRUE])
    /\ pointer' = "down"
    /\ UNCHANGED <<imageVars, requestVars, errorMsg, exportVars, now, drawVars, serviceVars>>

\* part_001:97  handleContainerMouseDown: the button goes down over empty container area
PointerDownContainer ==
    /\ pointer = "up"
    /\ ContainerMounted
    /\ selectedCaptionId' = Null
    /\ pointer' = "down"
    /\ UNCHANGED <<imageVars, captions, requestVars, errorMsg, exportVars, now, drawVars, serviceVars>>

\* The button goes down outside the container: no handler of the canvas runs.
PointerDownOutside ==
    /\ pointer = "up"
    /\ pointer' = "down"
    /\ UNCHANGED <<imageVars, captionVars, requestVars, errorMsg, exportVars, now, drawVars, serviceVars>>

\* part_001:101  handleMouseMove(e) with the container box measured at the event
handleMouseMove(p, rect) ==
    LET x == p[1] - rect.left
        y == p[2] - rect.top
        clampedX == Clamp(x, rect.width)
        clampedY == Clamp(y, rect.height)
    IN updateEach(captions, draggingIds(captions), [x |-> clampedX, y |-> clampedY])

PointerMove(p, rect) ==
    /\ ContainerMounted
    /\ captions' = handleMouseMove(p, rect)
    /\ UNCHANGED <<imageVars, selectedCaptionId, requestVars, errorMsg, exportVars, inputVars, drawVars, serviceVars>>

\* Mutant: the box is measured without looking whether the container is
\* there; measuring null throws.
handleMouseMoveEvent_noGuard(p, current) ==
    IF current = <<>> THEN [captions |-> captions, threw |-> TRUE]
    ELSE [captions |-> handleMouseMove(p, current[1]), threw |-> FALSE]

\* part_001:101-117  handleMouseMove(e) from its first line.  `current` is
\* containerRef.current: <<>> when the container is not mounted, else the
\* container's box in a one-element sequence.  The result is the caption
\* collection after the handler and whether an exception left it.
handleMouseMoveEvent(p, current) ==
    IF current = <<>> THEN [captions |-> captions, threw |-> FALSE]
    ELSE [captions |-> handleMouseMove(p, current[1]), threw |-> FALSE]

\* part_001:102  the handler is called while the container is not rendered
PointerMoveUnmounted(p) ==
    /\ ~ContainerMounted
    /\ captions' = handleMouseMoveEvent(p, <<>>).captions
    /\ UNCHANGED <<imageVars, selectedCaptionId, requestVars, errorMsg, exportVars, inputVars,
                   drawVars, serviceVars>>

\* Mutant: only the selected caption's drag is ended.
handleMouseUp_selectedOnly ==
    updateCaption(captions, selectedCaptionId, [isDragging |-> FALSE])

\* part_001:119  handleMouseUp
handleMouseUp == updateEach(captions, draggingIds(captions), [isDragging |-> FALSE])

\* part_001:127  the window-level mouseup listener
PointerUp ==
    /\ pointer = "down"
    /\ captions' = handleMouseUp
    /\ pointer' = "up"
    /\ UNCHANGED <<imageVars, selectedCaptionId, requestVars, errorMsg, exportVars, now, drawVars, serviceVars>>

----------------------------------------------------------------------------
(* Background image *)

\* App.tsx:237  the file input: FileReader.onload hands over a data URL
UploadImage ==
    /\ currentImage' = UploadedImage
    /\ imgReady' = FALSE
    /\ UNCHANGED <<captionVars, requestVars, errorMsg, exportVars, inputVars, drawVars, serviceVars>>

\* part_001:152  the browser finishes loading the <img> and lays it out
ImageLoaded ==
    /\ currentImage # Null
    /\ ~imgReady
    /\ imgReady' = TRUE
    /\ UNCHANGED <<currentImage, captionVars, requestVars, errorMsg, exportVars, inputVars, drawVars, serviceVars>>

----------------------------------------------------------------------------
(* Requests to the AI collaborators *)

\* The Button component: a button does not react while disabled or loading.
ButtonEnabled(disabled, isLoading) == ~disabled /\ ~isLoading

\* App.tsx:314  the Generate Captions button
GenerateEnabled == ButtonEnabled(currentImage = Null, appState = ANALYZING)

\* App.tsx:363  the Apply Edit button
ApplyEditEnabled ==
    ButtonEnabled(currentImage = Null \/ trim(editPrompt) = "", appState = EDITING)

\* part_002:33  input.startsWith('data:'), on the images of the model
IsDataUrl(input) == input \in {UploadedImage, EditedImage}

\* Mutant: a fallback that fails hands back an empty string instead of rejecting.
resolveImageInput_swallowsFailure(input, n) ==
    IF IsDataUrl(input) THEN [attempts |-> <<>>, result |-> "base64"]
    ELSE IF n.fetch THEN [attempts |-> <<"fetch">>, result |-> "base64"]
    ELSE [attempts |-> <<"fetch", "canvas">>, result |-> "base64"]

\* part_002:32-70  resolveImageInput: the loads it attempts, in order, and
\* whether it resolves with base64 data or rejects.  The loads of one call
\* meet one condition `n`.
resolveImageInput(input, n) ==
    IF IsDataUrl(input) THEN [attempts |-> <<>>, result |-> "base64"]
    ELSE IF n.fetch THEN [attempts |-> <<"fetch">>, result |-> "base64"]
    ELSE IF n.canvas = "ok" THEN [attempts |-> <<"fetch", "canvas">>, result |-> "base64"]
    ELSE [attempts |-> <<"fetch", "canvas">>, result |-> "reject"]

\* part_002:76,122  `failed` after one more call on the current image: a call
\* whose image does not resolve will reject (the catch blocks rethrow).
AfterResolve(failed) ==
    IF resolveImageInput(currentImage, net).result = "reject" THEN failed + 1 ELSE failed

\* `failed` after a call of the kind rejected: the call that rejected is one
\* whose image did not resolve, or one that failed later.
AfterReject(failed, pending) ==
    { f \in {failed, failed - 1} : f >= 0 /\ f <= pending - 1 }

\* The network or the browser's treatment of the image changes.
NetChange(n) ==
    /\ net' = n
    /\ UNCHANGED <<imageVars, captionVars, requestVars, errorMsg, exportVars, inputVars,
                   drawVars, failedCaption, failedEdit>>

\* App.tsx:30-36  handleMagicCaption up to its await
StartCaption ==
    /\ GenerateEnabled
    /\ currentImage # Null
    /\ pendingCaption < MaxPending
    /\ appState' = ANALYZING
    /\ errorMsg' = Null
    /\ pendingCaption' = pendingCaption + 1
    /\ failedCaption' = AfterResolve(failedCaption)
    /\ UNCHANGED <<imageVars, captionVars, generatedCaptions, editPrompt, pendingEdit,
                   exportVars, inputVars, drawVars, net, failedEdit>>

\* Mutant: showing the suggestions drops the selection.
CaptionResolved_clearsSelection(results) ==
    /\ pendingCaption > failedCaption
    /\ generatedCaptions' = results
    /\ appState' = IDLE
    /\ pendingCaption' = pendingCaption - 1
    /\ selectedCaptionId' = Null
    /\ UNCHANGED <<imageVars, captions, editPrompt, pendingEdit, errorMsg,
                   exportVars, inputVars, drawVars, serviceVars>>

\* App.tsx:37,42  generateMemeCaptions resolved with `results`
CaptionResolved(results) ==
    /\ pendingCaption > failedCaption
    /\ generatedCaptions' = results
    /\ appState' = IDLE
    /\ pendingCaption' = pendingCaption - 1
    /\ UNCHANGED <<imageVars, captionVars, editPrompt, pendingEdit, errorMsg,
                   exportVars, inputVars, drawVars, serviceVars>>

\* Mutant: the status is reset after the try block instead of in a finally.
CaptionRejected_noFinally ==
    /\ pendingCaption > 0
    /\ errorMsg' = CaptionError
    /\ pendingCaption' = pendingCaption - 1
    /\ failedCaption' \in AfterReject(failedCaption, pendingCaption)
    /\ UNCHANGED <<imageVars, captionVars, generatedCaptions, appState, editPrompt,
                   pendingEdit, exportVars, inputVars, drawVars, net, failedEdit>>

\* App.tsx:38-42  generateMemeCaptions rejected
CaptionRejected ==
    /\ pendingCaption > 0
    /\ errorMsg' = CaptionError
    /\ appState' = IDLE
    /\ pendingCaption' = pendingCaption - 1
    /\ failedCaption' \in AfterReject(failedCaption, pendingCaption)
    /\ UNCHANGED <<imageVars, captionVars, generatedCaptions, editPrompt, pendingEdit,
                   exportVars, inputVars, drawVars, net, failedEdit>>

\* App.tsx:359  typing in the prompt textarea
TypePrompt(s) ==
    /\ editPrompt' = s
    /\ UNCHANGED <<imageVars, captionVars, generatedCaptions, appState, pendingCaption,
                   pendingEdit, errorMsg, exportVars, inputVars, drawVars, serviceVars>>

\* App.tsx:47-53  handleImageEdit up to its await
StartEdit ==
    /\ ApplyEditEnabled
    /\ currentImage # Null /\ trim(editPrompt) # ""
    /\ pendingEdit < MaxPending
    /\ appState' = EDITING
    /\ errorMsg' = Null
    /\ pendingEdit' = pendingEdit + 1
    /\ failedEdit' = AfterResolve(failedEdit)
    /\ UNCHANGED <<imageVars, captionVars, generatedCaptions, editPrompt, pendingCaption,
                   exportVars, inputVars, drawVars, net, failedCaption>>

\* Mutant: a result that arrives after an upload is discarded as stale.
EditResolved_discardsStale ==
    /\ pendingEdit > failedEdit
    /\ currentImage' = IF currentImage = UploadedImage THEN currentImage ELSE EditedImage
    /\ imgReady' = IF currentImage = UploadedImage THEN imgReady ELSE FALSE
    /\ editPrompt' = ""
    /\ appState' = IDLE
    /\ pendingEdit' = pendingEdit - 1
    /\ UNCHANGED <<captionVars, generatedCaptions, pendingCaption, errorMsg,
                   exportVars, inputVars, drawVars, serviceVars>>

\* App.tsx:54,55,60  editMemeImage resolved with a new image
EditResolved ==
    /\ pendingEdit > failedEdit
    /\ currentImage' = EditedImage
    /\ imgReady' = FALSE
    /\ editPrompt' = ""
    /\ appState' = IDLE
    /\ pendingEdit' = pendingEdit - 1
    /\ UNCHANGED <<captionVars, generatedCaptions, pendingCaption, errorMsg,
                   exportVars, inputVars, drawVars, serviceVars>>

\* Mutant: the failure also drops the image that could not be edited.
EditRejected_dropsImage ==
    /\ pendingEdit > 0
    /\ currentImage' = Null
    /\ errorMsg' = EditError
    /\ appState' = IDLE
    /\ pendingEdit' = pendingEdit - 1
    /\ failedEdit' \in AfterReject(failedEdit, pendingEdit)
    /\ UNCHANGED <<imgReady, captionVars, generatedCaptions, editPrompt, pendingCaption,
                   exportVars, inputVars, drawVars, net, failedCaption>>

\* App.tsx:56-60  editMemeImage rejected
EditRejected ==
    /\ pendingEdit > 0
    /\ errorMsg' = EditError
    /\ appState' = IDLE
    /\ pendingEdit' = pendingEdit - 1
    /\ failedEdit' \in AfterReject(failedEdit, pendingEdit)
    /\ UNCHANGED <<imageVars, captionVars, generatedCaptions, editPrompt, pendingCaption,
                   exportVars, inputVars, drawVars, net, failedCaption>>

----------------------------------------------------------------------------
(* Compositor *)

\* img.naturalWidth and img.naturalHeight of the images of the model.
naturalWidth(img) ==
    CASE img = UploadedImage -> 300 [] img = EditedImage -> 1024 [] OTHER -> 1600

naturalHeight(img) ==
    CASE img = UploadedImage -> 400 [] img = EditedImage -> 1024 [] OTHER -> 1200

\* Greatest common divisor of two naturals.
RECURSIVE GCD(_, _)
GCD(a, b) == IF b = 0 THEN a ELSE GCD(b, a % b)

Abs(n) == IF n < 0 THEN -n ELSE n

\* The number n / d, d > 0, as <<numerator, denominator>> in lowest terms.
\* The code computes in floating point; the model keeps the exact quotient.
Frac(n, d) == LET g == GCD(Abs(n), d) IN <<n \div g, d \div g>>

\* An integer times a number in lowest terms.
Times(v, q) == Frac(v * q[1], q[2])

\* part_001:47  const scale = img.naturalWidth / imgRect.width
scale(img, l) == Frac(naturalWidth(img), l.image.width)

\* Mutant: the image is taken to start at the container's left edge.
offsetX_zero(l) == 0

\* part_001:50  const offsetX = imgRect.left - containerRect.left
offsetX(l) == l.image.left - l.container.left

\* part_001:51  const offsetY = imgRect.top - containerRect.top
offsetY(l) == l.image.top - l.container.top

\* Mutant: the text is filled first and the outline is stroked over it.
drawCaption_fillFirst(cap, img, l) ==
    LET x == Times(cap.x - offsetX(l), scale(img, l))
        y == Times(cap.y - offsetY(l), scale(img, l))
        ctx == [textAlign |-> "center", textBaseline |-> "middle",
                font |-> Times(cap.fontSize, scale(img, l)),
                fillStyle |-> cap.color,
                strokeStyle |-> "black",
                lineWidth |-> Times(4, scale(img, l)),
                shadowColor |-> "rgba(0,0,0,0.8)",
                shadowBlur |-> Times(4, scale(img, l)),
                shadowOffsetX |-> Frac(0, 1),
                shadowOffsetY |-> Times(2, scale(img, l))]
    IN << [op |-> "fillText", text |-> cap.text, x |-> x, y |-> y,
           ctx |-> [ctx EXCEPT !.shadowBlur = Frac(0, 1)]],
          [op |-> "strokeText", text |-> cap.text, x |-> x, y |-> y, ctx |-> ctx] >>

\* part_001:57-82  one caption: the context is set up, the text is stroked,
\* shadowBlur is put to 0, the text is filled.  Each call is recorded with the
\* context it is made under.
drawCaption(cap, img, l) ==
    LET x == Times(cap.x - offsetX(l), scale(img, l))
        y == Times(cap.y - offsetY(l), scale(img, l))
        ctx == [textAlign |-> "center", textBaseline |-> "middle",
                font |-> Times(cap.fontSize, scale(img, l)),
                fillStyle |-> cap.color,
                strokeStyle |-> "black",
                lineWidth |-> Times(4, scale(img, l)),
                shadowColor |-> "rgba(0,0,0,0.8)",
                shadowBlur |-> Times(4, scale(img, l)),
                shadowOffsetX |-> Frac(0, 1),
                shadowOffsetY |-> Times(2, scale(img, l))]
    IN << [op |-> "strokeText", text |-> cap.text, x |-> x, y |-> y, ctx |-> ctx],
          [op |-> "fillText", text |-> cap.text, x |-> x, y |-> y,
           ctx |-> [ctx EXCEPT !.shadowBlur = Frac(0, 1)]] >>

\* part_001:57  captions.forEach
RECURSIVE drawCaptions(_, _, _)
drawCaptions(caps, img, l) ==
    IF caps = <<>> THEN <<>>
    ELSE drawCaption(Head(caps), img, l) \o drawCaptions(Tail(caps), img, l)

\* Mutant: the canvas takes the size the image has on screen.
drawMeme_displaySize(img, l, caps) ==
    [width |-> l.image.width,
     height |-> l.image.height,
     ops |-> <<[op |-> "drawImage", image |-> img, x |-> 0, y |-> 0]>>
             \o drawCaptions(caps, img, l)]

\* part_001:31-82  the canvas generateMemeBlob builds: its size and the
\* drawing calls made on it, in order.
drawMeme(img, l, caps) ==
    [width |-> naturalWidth(img),
     height |-> naturalHeight(img),
     ops |-> <<[op |-> "drawImage", image |-> img, x |-> 0, y |-> 0]>>
             \o drawCaptions(caps, img, l)]

\* The canvas after a generateMemeBlob call with the given outcome: a call
\* that gives no blob leaves nothing to export.
Composed(outcome) ==
    IF outcome = "blob" THEN drawMeme(currentImage, layout, captions) ELSE canvas

\* The window is resized or scrolled: the boxes change.
Relayout(l) ==
    /\ layout' = l
    /\ UNCHANGED <<imageVars, captionVars, requestVars, errorMsg, exportVars, inputVars, canvas, serviceVars>>

----------------------------------------------------------------------------
(* Export *)

\* App.tsx:259,268  Save and Share: disabled={!currentImage}
ExportEnabled == currentImage # Null

\* part_001:25-87  what generateMemeBlob can hand back: a blob, null (no 2d
\* context, or an empty canvas), or an exception (a broken image, a tainted
\* canvas).  An image that has not loaded has natural width 0, so the canvas
\* is empty and toBlob yields null.
generateMemeBlob == IF imgReady THEN {"blob", "null", "throw"} ELSE {"null", "throw"}

\* part_001:40,57-82  what the compositor draws when it is called: the image
\* that is shown and the captions of the latest render.
Snapshot == [image |-> currentImage, captions |-> captions]

\* Sequence `q` without its k-th element.
RemoveAt(q, k) == [j \in 1..(Len(q) - 1) |-> IF j < k THEN q[j] ELSE q[j + 1]]

\* App.tsx:89-92  handleDownload up to its await
StartDownload(outcome) ==
    /\ ExportEnabled
    /\ Len(exportTasks) < MaxExports
    /\ outcome \in generateMemeBlob
    /\ exportTasks' = Append(exportTasks, [at |-> "download", blob |-> outcome])
    /\ canvas' = Composed(outcome)
    /\ UNCHANGED <<imageVars, captionVars, requestVars, errorMsg, sink, inputVars, layout, serviceVars>>

\* App.tsx:93-106  handleDownload after its await
DownloadSettled(k) ==
    /\ k \in 1..Len(exportTasks)
    /\ exportTasks[k].at = "download"
    /\ exportTasks' = RemoveAt(exportTasks, k)
    /\ IF exportTasks[k].blob = "blob"
         THEN sink' = "download" /\ UNCHANGED errorMsg
         ELSE errorMsg' = DownloadError /\ UNCHANGED sink
    /\ UNCHANGED <<imageVars, captionVars, requestVars, inputVars, drawVars, serviceVars>>

\* App.tsx:109-112  handleShare up to its first await
StartShare(outcome) ==
    /\ ExportEnabled
    /\ Len(exportTasks) < MaxExports
    /\ outcome \in generateMemeBlob
    /\ exportTasks' = Append(exportTasks, [at |-> "share", blob |-> outcome, of |-> Snapshot])
    /\ canvas' = Composed(outcome)
    /\ UNCHANGED <<imageVars, captionVars, requestVars, errorMsg, sink, inputVars, layout, serviceVars>>

\* App.tsx:113,128-131  the compositor failed: the catch block only logs
ShareBlobFailed(k) ==
    /\ k \in 1..Len(exportTasks)
    /\ exportTasks[k].at = "share"
    /\ exportTasks[k].blob # "blob"
    /\ exportTasks' = RemoveAt(exportTasks, k)
    /\ UNCHANGED <<imageVars, captionVars, requestVars, errorMsg, sink, inputVars, drawVars, serviceVars>>

\* App.tsx:117-122  navigator.share exists and canShare accepts the file
ShareNative(k) ==
    /\ k \in 1..Len(exportTasks)
    /\ exportTasks[k].at = "share"
    /\ exportTasks[k].blob = "blob"
    /\ exportTasks' = [exportTasks EXCEPT ![k].at = "native"]
    /\ UNCHANGED <<imageVars, captionVars, requestVars, errorMsg, sink, inputVars, drawVars, serviceVars>>

\* App.tsx:117,128-131  navigator.share exists but navigator.canShare does not
\* (Web Share without file support): the call throws and the catch block logs
ShareCapabilityThrows(k) ==
    /\ k \in 1..Len(exportTasks)
    /\ exportTasks[k].at = "share"
    /\ exportTasks[k].blob = "blob"
    /\ exportTasks' = RemoveAt(exportTasks, k)
    /\ UNCHANGED <<imageVars, captionVars, requestVars, errorMsg, sink, inputVars, drawVars, serviceVars>>

\* App.tsx:118,128  navigator.share settled; a rejection (the user cancelled) is only logged
NativeSettled(k, ok) ==
    /\ k \in 1..Len(exportTasks)
    /\ exportTasks[k].at = "native"
    /\ exportTasks' = RemoveAt(exportTasks, k)
    /\ sink' = IF ok THEN "share" ELSE sink
    /\ UNCHANGED <<imageVars, captionVars, requestVars, errorMsg, inputVars, drawVars, serviceVars>>

\* App.tsx:123-125  no native share: handleShare drops its blob and calls
\* handleDownload, which invokes the compositor again; `same` records whether
\* the compositor draws what it drew for the share
ShareFallback(k, outcome) ==
    /\ k \in 1..Len(exportTasks)
    /\ exportTasks[k].at = "share"
    /\ exportTasks[k].blob = "blob"
    /\ outcome \in generateMemeBlob
    /\ exportTasks' = [exportTasks EXCEPT ![k] = [at |-> "fallback", blob |-> outcome,
                                                same |-> (Snapshot = exportTasks[k].of)]]
    /\ canvas' = Composed(outcome)
    /\ UNCHANGED <<imageVars, captionVars, requestVars, errorMsg, sink, inputVars, layout, serviceVars>>

\* App.tsx:93-106,126  the inner handleDownload finishes, then the alert
FallbackSettled(k) ==
    /\ k \in 1..Len(exportTasks)
    /\ exportTasks[k].at = "fallback"
    /\ exportTasks' = RemoveAt(exportTasks, k)
    /\ IF exportTasks[k].blob = "blob"
         THEN sink' = "download" /\ UNCHANGED errorMsg
         ELSE errorMsg' = DownloadError /\ UNCHANGED sink
    /\ UNCHANGED <<imageVars, captionVars, requestVars, inputVars, drawVars, serviceVars>>

BlobOutcomes == {"blob", "null", "throw"}
CaptionResults == { <<>>, SuggestionResults }

----------------------------------------------------------------------------
(* The actions, by component *)

CaptionActions ==
    \/ Tick
    \/ AddText
    \/ \E u \in FieldEdits : FieldEdit(u)
    \/ DeleteCaption

PointerActions ==
    \/ \E i \in 1..MaxCaptions : PointerDownCaption(i)
    \/ PointerDownContainer
    \/ PointerDownOutside
    \/ \E p \in PointerPositions, rect \in ContainerRects : PointerMove(p, rect)
    \/ PointerUp

ImageActions ==
    \/ \E url \in TEMPLATES : SelectTemplate(url)
    \/ UploadImage
    \/ ImageLoaded

SuggestionActions ==
    \/ StartCaption
    \/ \E results \in CaptionResults : CaptionResolved(results)
    \/ CaptionRejected

EditActions ==
    \/ \E s \in Prompts : TypePrompt(s)
    \/ StartEdit
    \/ EditResolved
    \/ EditRejected

ExportActions ==
    \/ \E o \in BlobOutcomes : StartDownload(o)
    \/ \E k \in 1..MaxExports : DownloadSettled(k)
    \/ \E o \in BlobOutcomes : StartShare(o)
    \/ \E k \in 1..MaxExports : ShareBlobFailed(k)
    \/ \E k \in 1..MaxExports : ShareNative(k)
    \/ \E k \in 1..MaxExports : ShareCapabilityThrows(k)
    \/ \E k \in 1..MaxExports, ok \in BOOLEAN : NativeSettled(k, ok)
    \/ \E k \in 1..MaxExports, o \in BlobOutcomes : ShareFallback(k, o)
    \/ \E k \in 1..MaxExports : FallbackSettled(k)

----------------------------------------------------------------------------
(* Specifications *)

\* Caption model and interaction controller.
Next ==
    \/ CaptionActions
    \/ PointerActions
    \/ \E url \in TEMPLATES : SelectTemplate(url)

Spec == Init /\ [][Next]_vars

\* The caption model with deleteCaption called on any caption, selected or not.
CaptionIds == { ToString(t) : t \in 1..MaxClock }

DeleteNext == Next \/ \E id \in CaptionIds : DeleteById(id)

DeleteSpec == Init /\ [][DeleteNext]_vars

\* Request lifecycle of both collaborators, with the image and with the
\* captions as the buttons of the side panels change them.
ReqNext ==
    \/ ImageActions
    \/ SuggestionActions
    \/ EditActions
    \/ Tick
    \/ AddText
    \/ \E i \in 1..Len(SuggestionResults) : AddSuggestion(i)
    \/ DeleteCaption

ReqSpec == Init /\ [][ReqNext]_vars

\* A collaborator call that was started settles: it resolves or it rejects.
CaptionSettles == (\E results \in CaptionResults : CaptionResolved(results)) \/ CaptionRejected
EditSettles == EditResolved \/ EditRejected

\* The request lifecycle alone: the caption collection plays no part in it.
ReqLiveNext == ImageActions \/ SuggestionActions \/ EditActions

ReqLiveSpec ==
    Init /\ [][ReqLiveNext]_vars /\ WF_vars(CaptionSettles) /\ WF_vars(EditSettles)

\* Export, with the image, an edit request that replaces it, and captions.
ExportNext ==
    \/ ImageActions
    \/ ExportActions
    \/ EditActions
    \/ AddText
    \/ DeleteCaption

ExportSpec == Init /\ [][ExportNext]_vars

\* Spec, with handleMouseMove also called while the container is not mounted.
MoveNext == Next \/ \E p \in PointerPositions : PointerMoveUnmounted(p)

MoveSpec == Init /\ [][MoveNext]_vars

\* Adding, editing, deleting, grabbing and releasing captions while requests
\* of both kinds are under way.
BusyNext ==
    \/ \E url \in TEMPLATES : SelectTemplate(url)
    \/ Tick
    \/ AddText
    \/ FieldEdit([text |-> "EDITED"])
    \/ DeleteCaption
    \/ \E i \in 1..MaxCaptions : PointerDownCaption(i)
    \/ PointerUp
    \/ StartCaption
    \/ CaptionResolved(SuggestionResults)
    \/ CaptionRejected
    \/ TypePrompt("make it cyberpunk")
    \/ StartEdit
    \/ EditResolved
    \/ EditRejected

BusySpec == Init /\ [][BusyNext]_vars

\* Requests of both kinds on a template URL and on data URLs, under every
\* condition of the network and of the canvas fallback.
ResolveNext ==
    \/ \E url \in TEMPLATES : SelectTemplate(url)
    \/ UploadImage
    \/ \E n \in Nets : NetChange(n)
    \/ StartCaption
    \/ CaptionResolved(SuggestionResults)
    \/ CaptionRejected
    \/ TypePrompt("make it cyberpunk")
    \/ StartEdit
    \/ EditResolved
    \/ EditRejected

ResolveSpec == Init /\ [][ResolveNext]_vars

\* The compositor as a function of what is on screen: an image that has
\* loaded, captions where edits and drags have put them, and a layout.
DrawnCaption(i) ==
    { [newCaption(ToString(i), NewText) EXCEPT !.x = a[1], !.y = a[2], !.fontSize = f] :
        a \in Anchors, f \in FontSizes }

DrawInit ==
    /\ currentImage \in TEMPLATES \cup {UploadedImage, EditedImage}
    /\ imgReady = TRUE
    /\ \E n \in 0..MaxCaptions :
         /\ captions \in [1..n -> UNION { DrawnCaption(i) : i \in 1..n }]
         /\ \A i \in 1..n : captions[i] \in DrawnCaption(i)
    /\ selectedCaptionId = Null
    /\ generatedCaptions = <<>>
    /\ appState = IDLE
    /\ editPrompt = ""
    /\ errorMsg = Null
    /\ pendingCaption = 0
    /\ pendingEdit = 0
    /\ exportTasks = <<>>
    /\ sink = "none"
    /\ pointer = "up"
    /\ now = 1
    /\ layout \in Layouts
    /\ canvas = NoCanvas
    /\ net = Online
    /\ failedCaption = 0
    /\ failedEdit = 0

DrawNext ==
    \/ \E o \in BlobOutcomes : StartDownload(o)
    \/ \E k \in 1..MaxExports : DownloadSettled(k)
    \/ \E l \in Layouts : Relayout(l)

DrawSpec == DrawInit /\ [][DrawNext]_vars

----------------------------------------------------------------------------
(* Properties *)

Dragging == { i \in 1..Len(captions) : captions[i].isDragging }

\* C1: no two captions in the collection have the same id, also when two
\* addCaption calls read the same clock value.
C1_UniqueIds ==
    \A i, j \in 1..Len(captions) : i # j => captions[i].id # captions[j].id

\* C2: at most one suggestion request and at most one edit request is
\* outstanding, and the button of a kind is disabled while a request of that
\* kind is outstanding.
C2_OneOutstandingPerKind ==
    /\ pendingCaption <= 1
    /\ pendingEdit <= 1
    /\ pendingCaption > 0 => ~GenerateEnabled
    /\ pendingEdit > 0 => ~ApplyEditEnabled

\* C3: every request that settles, resolved or rejected, puts the status back
\* to IDLE, and if every call settles the status does not stay ANALYZING or
\* EDITING forever.
C3_StatusReturnsToIdle ==
    /\ [][(CaptionSettles \/ EditSettles) => appState' = IDLE]_vars
    /\ (appState # IDLE) ~> (appState = IDLE)

C3_Witness ==
    /\ appState = IDLE
    /\ pendingCaption = 0 /\ pendingEdit = 0
    /\ errorMsg = CaptionError
    /\ currentImage = EditedImage

\* C4: at most one caption has isDragging = true.
C4_AtMostOneDragging == Cardinality(Dragging) <= 1

\* C5: while the pointer's button is up no caption has isDragging = true; in
\* particular every pointer-up leaves no caption dragging.
C5_NoDraggingAfterPointerUp == pointer = "up" => Dragging = {}

\* A drag has moved a caption and the pointer-up has ended it.
C5_Witness ==
    /\ pointer = "up"
    /\ \E i \in 1..Len(captions) : captions[i].x # DefaultX /\ ~captions[i].isDragging

\* C6: every pointer-move puts each dragged caption at (pointerX - left,
\* pointerY - top), each coordinate brought into [0, width] and [0, height].
C6_MoveClampsToContainer ==
    [][\A p \in PointerPositions, rect \in ContainerRects :
         PointerMove(p, rect) =>
           \A i \in Dragging :
             LET rawX == p[1] - rect.left
                 rawY == p[2] - rect.top
             IN /\ captions'[i].x =
                     IF rawX < 0 THEN 0 ELSE IF rawX > rect.width THEN rect.width ELSE rawX
                /\ captions'[i].y =
                     IF rawY < 0 THEN 0 ELSE IF rawY > rect.height THEN rect.height ELSE rawY
                /\ 0 <= captions'[i].x /\ captions'[i].x <= rect.width
                /\ 0 <= captions'[i].y /\ captions'[i].y <= rect.height]_vars

\* A caption in mid-drag that a move left of and below the container has put
\* on the container's left and bottom edge.
C6_Witness ==
    \E i \in Dragging, rect \in ContainerRects :
        captions[i].x = 0 /\ captions[i].y = rect.height

\* C7: deleteCaption(id) removes the captions with that id and nothing else,
\* keeps the others as they were and in their order, and sets the selection to
\* none exactly when the deleted id was the selected one.
C7_DeleteRemovesExactlyThatId ==
    [][\A id \in CaptionIds :
         DeleteById(id) =>
           /\ \A i \in 1..Len(captions') : captions'[i].id # id
           /\ captions' = SelectSeq(captions, LAMBDA c : c.id # id)
           /\ (selectedCaptionId = id) => (selectedCaptionId' = Null)
           /\ (selectedCaptionId # id) => (selectedCaptionId' = selectedCaptionId)]_vars

\* The selected one of two captions has been deleted (nothing else clears the
\* selection while no image is shown); the caption that stays keeps its edit.
C7_Witness ==
    /\ currentImage = Null
    /\ selectedCaptionId = Null
    /\ Len(captions) = 1
    /\ captions[1].text = "EDITED"

\* C8: a rejected suggestion or edit request leaves the background image and
\* the captions as they were, sets one error message and puts the status back
\* to IDLE.
C8_RejectionKeepsState ==
    [][(CaptionRejected \/ EditRejected) =>
         /\ currentImage' = currentImage
         /\ captions' = captions
         /\ errorMsg' \in {CaptionError, EditError}
         /\ (CaptionRejected /\ ~EditRejected) => errorMsg' = CaptionError
         /\ (EditRejected /\ ~CaptionRejected) => errorMsg' = EditError
         /\ appState' = IDLE]_vars

\* An edit request has been rejected with an image and a caption in place.
C8_Witness ==
    /\ errorMsg = EditError
    /\ appState = IDLE
    /\ pendingEdit = 0
    /\ currentImage = UploadedImage
    /\ Len(captions) > 0

\* A handleDownload or handleShare call learns that the compositor failed.
CompositorFailed ==
    \E k \in 1..Len(exportTasks) :
        /\ exportTasks[k].blob # "blob"
        /\ DownloadSettled(k) \/ ShareBlobFailed(k) \/ FallbackSettled(k)

\* C9: whenever the compositor fails during an export an error message is set,
\* for the download action and for the share action.
C9_CompositorFailureReported ==
    [][CompositorFailed => errorMsg' # Null]_vars

\* A handler calls generateMemeBlob.
CompositorInvoked ==
    \E o \in BlobOutcomes :
        \/ StartDownload(o)
        \/ StartShare(o)
        \/ \E k \in 1..Len(exportTasks) : ShareFallback(k, o)

\* C10: generateMemeBlob is invoked, through the Save and Share controls, only
\* in states where the background image has loaded with a nonzero rendered
\* size: the controls let no export start before the image is ready.
C10_ExportOnlyWhenImageReady ==
    [][CompositorInvoked => imgReady]_vars

\* C11: when the share action finds native sharing unavailable or the payload
\* unshareable, a download is triggered with the image the share action
\* exported, and no error message is set.
C11_ShareFallsBackToDownload ==
    [][\A k \in 1..Len(exportTasks) :
         /\ FallbackSettled(k) =>
              /\ sink' = "download"
              /\ exportTasks[k].same
              /\ errorMsg' = errorMsg
         /\ ShareCapabilityThrows(k) => sink' = "download"]_vars

\* The texts addCaption is called with: the Add Text control's and the
\* suggestions'.
AddedTexts == {NewText} \cup { SuggestionResults[i].text : i \in 1..Len(SuggestionResults) }

\* C12: addCaption(text), from the Add Text control or from a suggestion,
\* turns N captions into N+1 whose last has the given text, position (300,50),
\* color #FFFFFF and size 32 whatever the suggestion's category, keeps the N
\* captions that were there, and selects the new caption.
C12_AddCaptionAppendsDefault ==
    [][\A text \in AddedTexts :
         AddCaption(text) =>
           LET n == Len(captions)
               new == captions'[n + 1]
           IN /\ Len(captions') = n + 1
              /\ new.text = text
              /\ new.x = 300 /\ new.y = 50
              /\ new.color = "#FFFFFF"
              /\ new.fontSize = 32
              /\ \A i \in 1..n : captions'[i] = captions[i]
              /\ selectedCaptionId' = new.id]_vars

\* A suggestion of category Dark has been added after an edited caption from
\* the Add Text control, and is the selected one.
C12_Witness ==
    /\ Len(captions) = 2
    /\ captions[1].text = NewText
    /\ captions[2].text = SuggestionResults[2].text
    /\ captions[2].x = 300 /\ captions[2].y = 50
    /\ captions[2].color = "#FFFFFF" /\ captions[2].fontSize = 32
    /\ captions[1].id # captions[2].id
    /\ selectedCaptionId = captions[2].id

\* A generateMemeBlob call draws a canvas that becomes a blob.
Composes ==
    \/ StartDownload("blob")
    \/ StartShare("blob")
    \/ \E k \in 1..Len(exportTasks) : ShareFallback(k, "blob")

\* The two text calls the compositor makes for the i-th caption.
TextOps(cv, i) == { cv.ops[2 * i], cv.ops[2 * i + 1] }

\* C13: the export puts the text of every caption at ((x - offsetX) * scale,
\* (y - offsetY) * scale), scale = naturalWidth / displayed image width, the
\* offsets the image's top-left minus the container's; font size and stroke
\* width are multiplied by the same scale.  With a container of 800x600 and a
\* 1600x1200 image displayed at 800x600, a caption at (400,300) goes to
\* (800,600).
C13_ExportMapsDisplayToNatural ==
    [][Composes =>
         LET nw == naturalWidth(currentImage)
             w == layout.image.width
             offX == layout.image.left - layout.container.left
             offY == layout.image.top - layout.container.top
         IN \A i \in 1..Len(captions) : \A t \in TextOps(canvas', i) :
              /\ t.text = captions[i].text
              /\ t.x[1] * w = (captions[i].x - offX) * nw * t.x[2]
              /\ t.y[1] * w = (captions[i].y - offY) * nw * t.y[2]
              /\ t.ctx.font[1] * w = captions[i].fontSize * nw * t.ctx.font[2]
              /\ t.ctx.lineWidth[1] * w = 4 * nw * t.ctx.lineWidth[2]
              /\ ( /\ layout.container.width = 800 /\ layout.container.height = 600
                   /\ layout.image.width = 800 /\ layout.image.height = 600
                   /\ offX = 0 /\ offY = 0
                   /\ nw = 1600 /\ naturalHeight(currentImage) = 1200
                   /\ captions[i].x = 400 /\ captions[i].y = 300 )
                 => (t.x = <<800, 1>> /\ t.y = <<600, 1>>)]_vars

\* The 1600x1200 image, shown 800 px wide at the container's top-left, has
\* been exported with a caption at (300,50) and a caption of size 32 at
\* (400,300).
C13_Witness ==
    /\ canvas.width = 1600
    /\ Len(canvas.ops) = 5
    /\ canvas.ops[2].x = <<600, 1>> /\ canvas.ops[2].y = <<100, 1>>
    /\ canvas.ops[4].x = <<800, 1>> /\ canvas.ops[4].y = <<600, 1>>
    /\ canvas.ops[4].ctx.font = <<64, 1>>
    /\ canvas.ops[5].ctx.lineWidth = <<8, 1>>

\* C14: the exported canvas is as wide and as high as the background image is
\* naturally, whatever size the image and the container have on screen.
C14_CanvasHasNaturalSize ==
    [][Composes =>
         /\ canvas'.width = naturalWidth(currentImage)
         /\ canvas'.height = naturalHeight(currentImage)]_vars

\* A 300x400 image shown 800 px wide has been exported as 300x400.
C14_Witness ==
    /\ canvas.width = 300 /\ canvas.height = 400
    /\ Len(canvas.ops) = 3
    /\ canvas.ops[1].image = UploadedImage
    /\ layout.image.width = 800

\* C15: while a suggestion request or an edit request is outstanding the
\* status is ANALYZING or EDITING; with status IDLE no request is outstanding.
C15_IdleMeansNoRequest ==
    (pendingCaption > 0 \/ pendingEdit > 0) => appState # IDLE

\* A suggestion request or an edit request has not settled.
Outstanding == pendingCaption > 0 \/ pendingEdit > 0

\* C16: while a request is outstanding adding a caption, deleting and editing
\* the selected caption and dragging a caption stay possible, and the request's
\* completion, resolved or rejected, leaves captions and selection as they are.
C16_CaptionActionsDuringRequest ==
    /\ [](Outstanding =>
            /\ Len(captions) < MaxCaptions => ENABLED AddText
            /\ HasSelectedCaption =>
                 (ENABLED DeleteCaption /\ ENABLED FieldEdit([text |-> "EDITED"]))
            /\ pointer = "up" => \A i \in 1..Len(captions) : ENABLED PointerDownCaption(i)
            /\ \A rect \in ContainerRects : ENABLED PointerMove(<<2, 2>>, rect)
            /\ pointer = "down" => ENABLED PointerUp)
    /\ [][(CaptionSettles \/ EditSettles) =>
            /\ captions' = captions
            /\ selectedCaptionId' = selectedCaptionId]_vars

\* An edit request was rejected while a suggestion request is outstanding, and
\* of two captions the one that was edited is selected and in mid-drag.
C16_Witness ==
    /\ pendingCaption = 1
    /\ errorMsg = EditError
    /\ Len(captions) = 2
    /\ \E i \in Dragging :
         /\ captions[i].text = "EDITED"
         /\ selectedCaptionId = captions[i].id
         /\ \A j \in 1..Len(captions) : j # i => captions[j].text = NewText

\* C17: when an edit request resolves, the background becomes the image the
\* request returned, whatever the background is by then, an image uploaded
\* during the request included: the last write decides.
C17_EditResultWinsOverUpload ==
    [][EditResolved =>
         /\ currentImage' = EditedImage
         /\ (currentImage = UploadedImage) => (currentImage' # currentImage)]_vars

\* The result of an edit request is the background, not yet loaded, and
\* nothing is outstanding; the prompt has been cleared.
C17_Witness ==
    /\ currentImage = EditedImage
    /\ ~imgReady
    /\ editPrompt = ""
    /\ pendingEdit = 0
    /\ appState = IDLE
    /\ errorMsg = Null

\* C18: a pointer-down on a caption makes that caption dragging and selected;
\* the container's deselection does not happen for that event, so right after
\* it the selection is the caption's id and not none.
C18_PointerDownSelectsAndDrags ==
    [][\A i \in 1..Len(captions) :
         PointerDownCaption(i) =>
           /\ Len(captions') = Len(captions)
           /\ captions'[i].isDragging
           /\ captions'[i].id = captions[i].id
           /\ selectedCaptionId' = captions[i].id
           /\ selectedCaptionId' # Null]_vars

\* Of two captions with different ids the older one is selected and dragging:
\* the newer one was selected when it was added, until the press on the older.
C18_Witness ==
    /\ pointer = "down"
    /\ Len(captions) = 2
    /\ captions[1].id # captions[2].id
    /\ captions[1].isDragging
    /\ ~captions[2].isDragging
    /\ selectedCaptionId = captions[1].id

\* C19: a pointer-down on empty container area sets the selection to none,
\* makes no caption dragging and leaves the captions as they are.
C19_ContainerPressDeselectsOnly ==
    [][PointerDownContainer =>
         /\ selectedCaptionId' = Null
         /\ captions' = captions
         /\ \A i \in 1..Len(captions') : captions'[i].isDragging = captions[i].isDragging]_vars

\* Two captions, none selected and none dragging, with the button down: a
\* press on the background has taken the selection away.
C19_Witness ==
    /\ pointer = "down"
    /\ currentImage # Null
    /\ Len(captions) = 2
    /\ selectedCaptionId = Null
    /\ Dragging = {}
    /\ captions[1].text = "EDITED"

\* C20: a pointer-move changes nothing but x and y of the captions that are
\* dragging: id, text, color, fontSize and isDragging of every caption, the
\* position of every caption that is not dragging, the order and the selection
\* stay, and a move while no caption is dragging changes nothing.
C20_MoveChangesOnlyDraggedPosition ==
    [][\A p \in PointerPositions, rect \in ContainerRects :
         PointerMove(p, rect) =>
           /\ Len(captions') = Len(captions)
           /\ selectedCaptionId' = selectedCaptionId
           /\ \A i \in 1..Len(captions) :
                /\ captions'[i].id = captions[i].id
                /\ captions'[i].text = captions[i].text
                /\ captions'[i].color = captions[i].color
                /\ captions'[i].fontSize = captions[i].fontSize
                /\ captions'[i].isDragging = captions[i].isDragging
                /\ ~captions[i].isDragging =>
                     (captions'[i].x = captions[i].x /\ captions'[i].y = captions[i].y)
           /\ (Dragging = {}) => (captions' = captions)]_vars

\* With unique ids a pointer-move leaves the position of every caption that
\* is not dragging.
MoveKeepsOthersWhileIdsUnique ==
    [][\A p \in PointerPositions, rect \in ContainerRects :
         (C1_UniqueIds /\ PointerMove(p, rect)) =>
           \A i \in 1..Len(captions) :
             ~captions[i].isDragging =>
               (captions'[i].x = captions[i].x /\ captions'[i].y = captions[i].y)]_vars

\* C21: the selection is none or the id of a caption that is in the
\* collection; it never names a caption that was deleted or never existed.
C21_SelectionExists ==
    selectedCaptionId = Null \/ HasSelectedCaption

\* No image was ever shown, so no press has changed the selection: the
\* selected caption was deleted, the selection is none and a caption stays.
C21_Witness ==
    /\ currentImage = Null
    /\ selectedCaptionId = Null
    /\ Len(captions) = 1
    /\ captions[1].text = NewText
    /\ captions[1].id = "1"
    /\ now = 2

\* C22: every caption with isDragging = true is the selected caption.
C22_DraggingIsSelected ==
    \A i \in Dragging : captions[i].id = selectedCaptionId

\* C23: an export draws the background image at (0,0) first, then, for each
\* caption in collection order, its outline stroke and after it its fill; with
\* no caption the image is the only thing drawn.
C23_DrawOrder ==
    [][Composes =>
         LET ops == canvas'.ops
             n == Len(captions)
             nw == naturalWidth(currentImage)
             w == layout.image.width
             offX == layout.image.left - layout.container.left
             offY == layout.image.top - layout.container.top
         IN /\ Len(ops) = 1 + 2 * n
            /\ ops[1].op = "drawImage"
            /\ ops[1].image = currentImage
            /\ ops[1].x = 0 /\ ops[1].y = 0
            /\ \A i \in 1..n :
                 /\ ops[2 * i].op = "strokeText"
                 /\ ops[2 * i + 1].op = "fillText"
                 /\ \A t \in TextOps(canvas', i) :
                      /\ t.text = captions[i].text
                      /\ t.ctx.fillStyle = captions[i].color
                      /\ t.x[1] * w = (captions[i].x - offX) * nw * t.x[2]
                      /\ t.y[1] * w = (captions[i].y - offY) * nw * t.y[2]]_vars

\* An export of two captions at different places: image, stroke and fill of
\* the first, stroke and fill of the second.
C23_Witness ==
    /\ Len(canvas.ops) = 5
    /\ canvas.ops[1].op = "drawImage"
    /\ canvas.ops[2].op = "strokeText" /\ canvas.ops[3].op = "fillText"
    /\ canvas.ops[4].op = "strokeText" /\ canvas.ops[5].op = "fillText"
    /\ canvas.ops[2].x = canvas.ops[3].x
    /\ canvas.ops[4].x = canvas.ops[5].x
    /\ canvas.ops[2].x # canvas.ops[4].x
    /\ Len(captions) = 2
    /\ captions[1].x < captions[2].x

\* A text call made under `ctx` casts a shadow: the shadow colour is not
\* transparent and the blur or one of the offsets is not zero.
ShadowDrawn(ctx) ==
    /\ ctx.shadowColor # "rgba(0,0,0,0)"
    /\ ctx.shadowBlur[1] # 0 \/ ctx.shadowOffsetX[1] # 0 \/ ctx.shadowOffsetY[1] # 0

\* C24: for every caption of an export, the first and the later ones, the
\* stroke is made with the drop shadow and the fill without any shadow,
\* neither blurred nor offset.
C24_ShadowOnStrokeOnly ==
    [][Composes =>
         \A i \in 1..Len(captions) :
           /\ ShadowDrawn(canvas'.ops[2 * i].ctx)
           /\ ~ShadowDrawn(canvas'.ops[2 * i + 1].ctx)
           /\ canvas'.ops[2 * i + 1].ctx.shadowBlur = <<0, 1>>]_vars

\* C25: for a request, a data URL is used directly, with no fetch; any other
\* reference is fetched first and the canvas re-encode is attempted only after
\* the fetch has failed; when the re-encode fails too the request rejects, and
\* a request whose image did not resolve ends with the error message shown.
C25_TwoPathResolution ==
    /\ [][(StartCaption \/ StartEdit) =>
            LET r == resolveImageInput(currentImage, net)
            IN /\ IsDataUrl(currentImage) => (r.attempts = <<>> /\ r.result = "base64")
               /\ ~IsDataUrl(currentImage) =>
                    /\ r.attempts[1] = "fetch"
                    /\ net.fetch => (r.attempts = <<"fetch">> /\ r.result = "base64")
                    /\ ~net.fetch => r.attempts = <<"fetch", "canvas">>
                    /\ (r.result = "reject") <=> (~net.fetch /\ net.canvas # "ok")
               /\ (r.result = "reject" /\ StartCaption) => failedCaption' = failedCaption + 1
               /\ (r.result = "reject" /\ StartEdit) => failedEdit' = failedEdit + 1]_vars
    /\ [][/\ (CaptionSettles /\ failedCaption = pendingCaption) => errorMsg' = CaptionError
          /\ (EditSettles /\ failedEdit = pendingEdit) =>
               (errorMsg' = EditError /\ currentImage' = currentImage)]_vars

\* With the fetch failing and the canvas tainted, a suggestion request on the
\* template has ended with its error message, and an edit request whose image
\* did not resolve is still outstanding.
C25_Witness ==
    /\ currentImage \in TEMPLATES
    /\ ~net.fetch /\ net.canvas = "tainted"
    /\ errorMsg = CaptionError
    /\ pendingCaption = 0 /\ failedCaption = 0
    /\ pendingEdit = 1 /\ failedEdit = 1

\* C26: a pointer-move handled while the container is not mounted does
\* nothing: no caption's position or drag flag changes and no error is raised.
C26_UnmountedMoveIsNoOp ==
    ~ContainerMounted =>
        \A p \in PointerPositions :
            LET r == handleMouseMoveEvent(p, <<>>)
            IN /\ r.captions = captions
               /\ ~r.threw

\* No container is mounted, there are captions and the button is down: a
\* pointer-move can be handled and leaves the captions.
C26_Witness ==
    /\ ~ContainerMounted
    /\ pointer = "down"
    /\ Len(captions) = 2
    /\ captions[2].text = "EDITED"
    /\ ENABLED PointerMoveUnmounted(<<2, 2>>)

\* While ids are unique at most one caption is dragging.
OneDraggingWhileIdsUnique == C1_UniqueIds => C4_AtMostOneDragging

====
